---- MODULE Spec2Model ----
(***************************************************************************)
(* Model of the dungeon generator of procgen.py: RectangularRoom (center,  *)
(* inner, intersects), tunnel_between, place_entities and the loop of      *)
(* generate_dungeon.  Random draws are nondeterministic choices; a         *)
(* random.randint over an empty range raises ValueError, which ends the    *)
(* run in pc = "error".                                                    *)
(***************************************************************************)
EXTENDS Integers, Sequences, FiniteSets

VARIABLES
    max_rooms,              \* generate_dungeon parameters
    room_min_size,
    room_max_size,
    map_width,
    map_height,
    max_monsters_per_room,
    pc,                     \* "loop" | "place" | "done" | "error" | "tunnel"
    r,                      \* loop counter of `for r in range(max_rooms)`
    rooms,                  \* the accepted rooms, in order
    tiles,                  \* dungeon.tiles: [x, y] -> "wall" | "floor"
    entities,               \* dungeon.entities, entities[1] is the player
    placed,                 \* player.place has been called
    new_room,               \* the room place_entities is working on
    number_of_monsters,     \* the count place_entities drew
    i,                      \* trial index of the loop of place_entities
    ents_before,            \* Len(entities) when place_entities was called
    tunnels                 \* every tunnel_between call: [start, end, path]

vars == <<max_rooms, room_min_size, room_max_size, map_width, map_height,
          max_monsters_per_room, pc, r, rooms, tiles, entities, placed,
          new_room, number_of_monsters, i, ents_before, tunnels>>

params == <<max_rooms, room_min_size, room_max_size, map_width, map_height,
            max_monsters_per_room>>

(* Bounds of the model. *)
MaxRooms == 3
MaxSize == 3
MaxWidth == 6
MaxHeight == 4
MaxMonsters == 1
MaxCoord == 2

(***************************************************************************)
(* RectangularRoom                                                         *)
(***************************************************************************)
RectangularRoom(x, y, width, height) ==
    [x1 |-> x, y1 |-> y, x2 |-> x + width, y2 |-> y + height]

\* int(n / 2): true division, then truncation toward zero.
IntHalf(n) == IF n >= 0 THEN n \div 2 ELSE -((-n) \div 2)

\* Faulty variant of center: the half extent, the room's own offset forgotten.
center_half_extent(room) ==
    <<IntHalf(room.x2 - room.x1), IntHalf(room.y2 - room.y1)>>

center(room) == <<IntHalf(room.x1 + room.x2), IntHalf(room.y1 + room.y2)>>

\* Faulty variant of inner: the slices start on the border.
inner_with_border(room) ==
    [xs |-> [start |-> room.x1, stop |-> room.x2],
     ys |-> [start |-> room.y1, stop |-> room.y2]]

\* The two slices slice(x1 + 1, x2), slice(y1 + 1, y2): start inclusive,
\* stop exclusive.
inner(room) ==
    [xs |-> [start |-> room.x1 + 1, stop |-> room.x2],
     ys |-> [start |-> room.y1 + 1, stop |-> room.y2]]

\* Faulty variant of intersects: strict comparisons, so touching rooms pass.
intersects_strict(self, other) ==
    /\ self.x1 < other.x2
    /\ self.x2 > other.x1
    /\ self.y1 < other.y2
    /\ self.y2 > other.y1

\* Faulty variant of intersects: only tests whether other's top-left corner is inside.
intersects_corner_inside(self, other) ==
    /\ self.x1 <= other.x1
    /\ self.x2 >= other.x1
    /\ self.y1 <= other.y1
    /\ self.y2 >= other.y1

intersects(self, other) ==
    /\ self.x1 <= other.x2
    /\ self.x2 >= other.x1
    /\ self.y1 <= other.y2
    /\ self.y2 >= other.y1

(***************************************************************************)
(* The tile grid                                                           *)
(***************************************************************************)
Grid(w, h) == (0 .. w - 1) \X (0 .. h - 1)

\* GameMap(engine, map_width, map_height, ...): the grid filled with wall.
NewTiles(w, h) == [c \in Grid(w, h) |-> "wall"]

\* The indices a slice with non-negative start and stop selects on an axis
\* of length n (the stop is clipped to the axis).
SliceIndices(s, n) == {k \in 0 .. n - 1 : s.start <= k /\ k < s.stop}

\* dungeon.tiles[slices] = tile_types.floor
CarveSlices(t, sl, w, h) ==
    [c \in Grid(w, h) |->
        IF c[1] \in SliceIndices(sl.xs, w) /\ c[2] \in SliceIndices(sl.ys, h)
        THEN "floor" ELSE t[c]]

RECURSIVE CarveCells(_, _)
\* for x, y in path: dungeon.tiles[x, y] = tile_types.floor
CarveCells(t, path) ==
    IF path = <<>> THEN t
    ELSE CarveCells([t EXCEPT ![Head(path)] = "floor"], Tail(path))

(***************************************************************************)
(* tunnel_between                                                          *)
(***************************************************************************)
Sign(n) == IF n > 0 THEN 1 ELSE IF n < 0 THEN -1 ELSE 0
Abs(n) == IF n < 0 THEN -n ELSE n

\* The state of a line walk from p to q (deltas doubled, e the error term).
line_init(p, q) ==
    LET dx == q[1] - p[1]
        dy == q[2] - p[2]
    IN  [x |-> p[1], y |-> p[2], destx |-> q[1], desty |-> q[2],
         stepx |-> Sign(dx), stepy |-> Sign(dy),
         deltax |-> 2 * Abs(dx), deltay |-> 2 * Abs(dy),
         e |-> IF Abs(dx) > Abs(dy) THEN Abs(dx) ELSE Abs(dy)]

RECURSIVE line_walk(_)
\* The cells after <<d.x, d.y>> on the Bresenham line to the destination.
line_walk(d) ==
    IF d.deltax > d.deltay
    THEN IF d.x = d.destx THEN <<>>
         ELSE LET e1 == d.e - d.deltay
                  ny == IF e1 < 0 THEN d.y + d.stepy ELSE d.y
                  e2 == IF e1 < 0 THEN e1 + d.deltax ELSE e1
                  nd == [d EXCEPT !.x = d.x + d.stepx, !.y = ny, !.e = e2]
              IN  <<<<nd.x, nd.y>>>> \o line_walk(nd)
    ELSE IF d.y = d.desty THEN <<>>
         ELSE LET e1 == d.e - d.deltax
                  nx == IF e1 < 0 THEN d.x + d.stepx ELSE d.x
                  e2 == IF e1 < 0 THEN e1 + d.deltay ELSE e1
                  nd == [d EXCEPT !.x = nx, !.y = d.y + d.stepy, !.e = e2]
              IN  <<<<nd.x, nd.y>>>> \o line_walk(nd)

\* tcod.los.bresenham(p, q).tolist(): the line from p to q, both included.
bresenham(p, q) == <<p>> \o line_walk(line_init(p, q))

\* coin is the outcome of random.random() < 0.5
tunnel_corner(start, end, coin) ==
    IF coin THEN <<end[1], start[2]>> ELSE <<start[1], end[2]>>

\* Faulty variant of tunnel_between: the second leg is never emitted.
tunnel_one_leg(start, end, coin) ==
    bresenham(start, tunnel_corner(start, end, coin))

\* Faulty variant of tunnel_between: one straight line, no corner.
tunnel_straight(start, end, coin) == bresenham(start, end)

tunnel_between(start, end, coin) ==
    LET corner == tunnel_corner(start, end, coin)
    IN  bresenham(start, corner) \o bresenham(corner, end)

(***************************************************************************)
(* Random draws and entities                                               *)
(***************************************************************************)
\* random.randint(a, b): the values it can return; none when a > b, where
\* it raises ValueError.
randint(a, b) == a .. b

\* entity_factories.<kind>.spawn(dungeon, x, y)
spawn(ents, kind, x, y) == Append(ents, [kind |-> kind, x |-> x, y |-> y])

\* player.place(x, y, dungeon)
place(ents, x, y) == [ents EXCEPT ![1] = [kind |-> "player", x |-> x, y |-> y]]

\* Faulty variant of occupied: the player is not looked at.
occupied_by_monster(ents, x, y) ==
    \E k \in 2 .. Len(ents) : ents[k].x = x /\ ents[k].y = y

\* any(entity.x == x and entity.y == y for entity in dungeon.entities)
occupied(ents, x, y) == \E k \in 1 .. Len(ents) : ents[k].x = x /\ ents[k].y = y

\* any(new_room.intersects(other_room) for other_room in rooms)
intersects_any(room, rs) == \E k \in 1 .. Len(rs) : intersects(room, rs[k])

\* The room a corridor to a newly accepted room starts from: rooms[-1].
previous_room(rs) == rs[Len(rs)]

\* Faulty variant of monster_counts: the count is drawn one too high.
monster_counts_high(maximum_monsters) == randint(1, maximum_monsters + 1)

\* number_of_monsters = random.randint(0, maximum_monsters)
monster_counts(maximum_monsters) == randint(0, maximum_monsters)

\* Faulty variant of spawn_xs: the draw stays one column further inside.
spawn_xs_narrow(room) == randint(room.x1 + 1, room.x2 - 2)

\* The cells place_entities draws a monster position from.
spawn_xs(room) == randint(room.x1 + 1, room.x2 - 1)
spawn_ys(room) == randint(room.y1 + 1, room.y2 - 1)

\* Faulty variant of room_xs: no margin at the far edge.
room_xs_no_margin(room_width) == randint(0, map_width - room_width)

\* The top-left corners generate_dungeon draws for a room of the given size.
room_xs(room_width) == randint(0, map_width - room_width - 1)
room_ys(room_height) == randint(0, map_height - room_height - 1)

NoRoom == RectangularRoom(0, 0, 0, 0)
PlayerStarts == {<<0, 0>>, <<1, 1>>}

(***************************************************************************)
(* generate_dungeon                                                        *)
(***************************************************************************)
Init ==
    /\ max_rooms \in 1 .. MaxRooms
    /\ room_min_size \in 1 .. MaxSize
    /\ room_max_size \in 1 .. MaxSize
    /\ map_width \in 1 .. MaxWidth
    /\ map_height \in 1 .. MaxHeight
    /\ max_monsters_per_room \in 0 .. MaxMonsters
    /\ pc = "loop"
    /\ r = 0
    /\ rooms = <<>>
    /\ tiles = NewTiles(map_width, map_height)
    /\ \E p \in PlayerStarts :
           entities = <<[kind |-> "player", x |-> p[1], y |-> p[2]]>>
    /\ placed = FALSE
    /\ new_room = NoRoom
    /\ number_of_monsters = 0
    /\ i = 0
    /\ ents_before = 1
    /\ tunnels = <<>>

\* A draw of lines 102-106 is over an empty range: random.randint raises.
DrawError ==
    /\ pc = "loop"
    /\ r < max_rooms
    /\ \/ randint(room_min_size, room_max_size) = {}
       \/ \E room_width, room_height \in randint(room_min_size, room_max_size) :
              room_xs(room_width) = {} \/ room_ys(room_height) = {}
    /\ pc' = "error"
    /\ UNCHANGED <<params, r, rooms, tiles, entities, placed, new_room,
                   number_of_monsters, i, ents_before, tunnels>>

\* Lines 102-113: the candidate intersects an accepted room.
RejectRoom ==
    /\ pc = "loop"
    /\ r < max_rooms
    /\ \E room_width, room_height \in randint(room_min_size, room_max_size) :
       \E x \in room_xs(room_width), y \in room_ys(room_height) :
           intersects_any(RectangularRoom(x, y, room_width, room_height), rooms)
    /\ r' = r + 1
    /\ UNCHANGED <<params, pc, rooms, tiles, entities, placed, new_room,
                   number_of_monsters, i, ents_before, tunnels>>

\* Lines 102-126 and 49: the candidate is carved, the player placed or the
\* corridor dug, and place_entities draws its count.
AcceptRoom ==
    /\ pc = "loop"
    /\ r < max_rooms
    /\ \E room_width, room_height \in randint(room_min_size, room_max_size) :
       \E x \in room_xs(room_width), y \in room_ys(room_height) :
       \E coin \in IF rooms = <<>> THEN {TRUE} ELSE BOOLEAN :
       \E count \in monster_counts(max_monsters_per_room) :
           LET room == RectangularRoom(x, y, room_width, room_height)
               dug == CarveSlices(tiles, inner(room), map_width, map_height)
               path == tunnel_between(center(previous_room(rooms)),
                                      center(room), coin)
           IN  /\ ~intersects_any(room, rooms)
               /\ new_room' = room
               /\ IF rooms = <<>>
                  THEN /\ tiles' = dug
                       /\ entities' = place(entities, center(room)[1],
                                            center(room)[2])
                       /\ placed' = TRUE
                       /\ tunnels' = tunnels
                  ELSE /\ tiles' = CarveCells(dug, path)
                       /\ tunnels' = Append(tunnels,
                              [start |-> center(previous_room(rooms)),
                               end |-> center(room), coin |-> coin,
                               path |-> path])
                       /\ UNCHANGED <<entities, placed>>
               /\ number_of_monsters' = count
               /\ ents_before' = Len(entities')
    /\ i' = 0
    /\ pc' = "place"
    /\ UNCHANGED <<params, r, rooms>>

\* Lines 51-59: one trial of place_entities.
PlaceTrial ==
    /\ pc = "place"
    /\ i < number_of_monsters
    /\ \E x \in spawn_xs(new_room), y \in spawn_ys(new_room) :
           entities' \in IF ~occupied(entities, x, y)
                         THEN {spawn(entities, "orc", x, y),
                               spawn(entities, "troll", x, y)}
                         ELSE {entities}
    /\ i' = i + 1
    /\ UNCHANGED <<params, pc, r, rooms, tiles, placed, new_room,
                   number_of_monsters, ents_before, tunnels>>

\* Lines 52-53: the room has no cell to draw from: random.randint raises.
PlaceError ==
    /\ pc = "place"
    /\ i < number_of_monsters
    /\ spawn_xs(new_room) = {} \/ spawn_ys(new_room) = {}
    /\ pc' = "error"
    /\ UNCHANGED <<params, r, rooms, tiles, entities, placed, new_room,
                   number_of_monsters, i, ents_before, tunnels>>

\* Line 128: place_entities has returned, the room joins the list.
AppendRoom ==
    /\ pc = "place"
    /\ i = number_of_monsters
    /\ rooms' = Append(rooms, new_room)
    /\ r' = r + 1
    /\ pc' = "loop"
    /\ UNCHANGED <<params, tiles, entities, placed, new_room,
                   number_of_monsters, i, ents_before, tunnels>>

\* Line 130: the loop is over.
Return ==
    /\ pc = "loop"
    /\ r = max_rooms
    /\ pc' = "done"
    /\ UNCHANGED <<params, r, rooms, tiles, entities, placed, new_room,
                   number_of_monsters, i, ents_before, tunnels>>

Next ==
    \/ DrawError
    \/ RejectRoom
    \/ AcceptRoom
    \/ PlaceTrial
    \/ PlaceError
    \/ AppendRoom
    \/ Return

Spec == Init /\ [][Next]_vars

(***************************************************************************)
(* tunnel_between on its own, for every pair of points                     *)
(***************************************************************************)
Points == (-MaxCoord .. MaxCoord) \X (-MaxCoord .. MaxCoord)

InitTunnel ==
    /\ max_rooms = 1
    /\ room_min_size = 1
    /\ room_max_size = 1
    /\ map_width = 1
    /\ map_height = 1
    /\ max_monsters_per_room = 0
    /\ pc = "tunnel"
    /\ r = 0
    /\ rooms = <<>>
    /\ tiles = NewTiles(1, 1)
    /\ entities = <<[kind |-> "player", x |-> 0, y |-> 0]>>
    /\ placed = FALSE
    /\ new_room = NoRoom
    /\ number_of_monsters = 0
    /\ i = 0
    /\ ents_before = 1
    /\ tunnels = <<>>

TunnelCall ==
    /\ pc = "tunnel"
    /\ tunnels = <<>>
    /\ \E start, end \in Points, coin \in BOOLEAN :
           tunnels' = <<[start |-> start, end |-> end, coin |-> coin,
                         path |-> tunnel_between(start, end, coin)]>>
    /\ UNCHANGED <<params, pc, r, rooms, tiles, entities, placed, new_room,
                   number_of_monsters, i, ents_before>>

NextTunnel == TunnelCall

SpecTunnel == InitTunnel /\ [][NextTunnel]_vars

(***************************************************************************)
(* Geometry used by the properties, written out from the coordinates       *)
(***************************************************************************)
TheGrid == Grid(map_width, map_height)

\* The cells strictly inside the room's border: [x1+1, x2) x [y1+1, y2).
Interior(room) ==
    {c \in TheGrid : /\ room.x1 + 1 <= c[1] /\ c[1] < room.x2
                     /\ room.y1 + 1 <= c[2] /\ c[2] < room.y2}

Midpoint(room) == <<(room.x1 + room.x2) \div 2, (room.y1 + room.y2) \div 2>>

FloorCells == {c \in DOMAIN tiles : tiles[c] = "floor"}

PathCells(path) == {path[k] : k \in 1 .. Len(path)}

PlayerCell == <<entities[1].x, entities[1].y>>

RoomCells == UNION {Interior(rooms[k]) : k \in 1 .. Len(rooms)}

CorridorCells == UNION {PathCells(tunnels[k].path) : k \in 1 .. Len(tunnels)}

\* C1: at every point of generate_dungeon, no two distinct accepted rooms
\* intersect (their closed rectangles share no point).
C1_AcceptedRoomsDisjoint ==
    \A a, b \in 1 .. Len(rooms) :
        a # b => ~(/\ rooms[a].x1 <= rooms[b].x2
                   /\ rooms[a].x2 >= rooms[b].x1
                   /\ rooms[a].y1 <= rooms[b].y2
                   /\ rooms[a].y2 >= rooms[b].y1)

\* Two rooms are accepted and their x ranges overlap (they are apart in y).
C1_Witness ==
    /\ Len(rooms) >= 2
    /\ rooms[1].x1 <= rooms[2].x2
    /\ rooms[1].x2 >= rooms[2].x1

\* C2: when generate_dungeon returns, the floor cells are exactly the inner
\* cells of the accepted rooms and the cells of the corridors, one corridor
\* per pair of consecutive accepted rooms, from center to center; a
\* rejected candidate leaves no floor cell.
C2_FloorIsRoomsAndCorridors ==
    pc = "done" =>
        /\ Len(tunnels) = (IF rooms = <<>> THEN 0 ELSE Len(rooms) - 1)
        /\ \A k \in 1 .. Len(tunnels) :
               /\ tunnels[k].start = Midpoint(rooms[k])
               /\ tunnels[k].end = Midpoint(rooms[k + 1])
        /\ FloorCells = RoomCells \cup CorridorCells
        /\ \A c \in TheGrid \ (RoomCells \cup CorridorCells) : tiles[c] = "wall"

\* A returned map with two rooms joined by a corridor that leaves both,
\* after one candidate was rejected.
C2_Witness ==
    /\ pc = "done"
    /\ Len(rooms) = 2
    /\ r = 3
    /\ CorridorCells \ RoomCells # {}

\* C3: the sequence tunnel_between produces starts at start, ends at end,
\* moves by at most one unit in x and in y between consecutive cells, and
\* holds the corner cell twice in a row.
C3_TunnelConnectsEndpoints ==
    \A k \in 1 .. Len(tunnels) :
        LET t == tunnels[k]
            n == Len(t.path)
        IN  /\ n >= 2
            /\ t.path[1] = t.start
            /\ t.path[n] = t.end
            /\ \A j \in 1 .. n - 1 :
                   /\ Abs(t.path[j + 1][1] - t.path[j][1]) <= 1
                   /\ Abs(t.path[j + 1][2] - t.path[j][2]) <= 1
            /\ \E j \in 1 .. n - 1 :
                   /\ t.path[j] = t.path[j + 1]
                   /\ t.path[j] = IF t.coin THEN <<t.end[1], t.start[2]>>
                                           ELSE <<t.start[1], t.end[2]>>

\* A tunnel between two points that differ in x and in y.
C3_Witness ==
    \E k \in 1 .. Len(tunnels) :
        /\ tunnels[k].start[1] # tunnels[k].end[1]
        /\ tunnels[k].start[2] # tunnels[k].end[2]
        /\ Len(tunnels[k].path) >= 6

\* The input contract of generate_dungeon: positive integers, sizes in
\* order, and a map on which a room of every allowed size can be placed.
InputContract ==
    /\ max_rooms >= 1
    /\ room_min_size >= 1
    /\ room_min_size <= room_max_size
    /\ max_monsters_per_room >= 1
    /\ room_max_size + 1 <= map_width
    /\ room_max_size + 1 <= map_height

OneRoomOutcome ==
    /\ Len(rooms) = 1
    /\ tunnels = <<>>
    /\ placed
    /\ PlayerCell = Midpoint(rooms[1])

Ended == pc \in {"done", "error"}

\* C4: with max_rooms = 1 and the input contract, every run ends with
\* exactly one accepted room, no corridor, and the player at its center.
C4_OneAttemptOneRoom ==
    (max_rooms = 1 /\ InputContract /\ Ended) => (pc = "done" /\ OneRoomOutcome)

\* What the code does keep of C4: a run with max_rooms = 1 that returns has
\* one room, no corridor and the player at its center, and no run raises
\* when, besides the contract, room_min_size is at least 2.
OneAttemptWhenRoomsHaveInner ==
    max_rooms = 1 =>
        /\ pc = "done" => OneRoomOutcome
        /\ (InputContract /\ room_min_size >= 2) => pc # "error"

\* The sizes are out of order, or no allowed room fits on the map.
ParameterViolation ==
    \/ room_min_size > room_max_size
    \/ map_width < room_min_size + 1
    \/ map_height < room_min_size + 1

\* C5: with violated preconditions generate_dungeon raises on its first
\* draws: it never returns a map, accepts no room, carves no tile and does
\* not place the player.
C5_ViolationFailsFast ==
    ParameterViolation =>
        /\ pc \in {"loop", "error"}
        /\ pc = "loop" => (r = 0 /\ ENABLED DrawError)
        /\ rooms = <<>>
        /\ ~placed
        /\ FloorCells = {}
        /\ Len(entities) = 1

\* The error has been raised for ordered sizes on a map too small for them.
C5_Witness ==
    /\ room_min_size <= room_max_size
    /\ map_width >= room_min_size + 1
    /\ map_height < room_min_size + 1
    /\ pc = "error"

\* C6: a call of place_entities adds at most as many monsters as the count
\* it drew, which is at most maximum_monsters; with maximum_monsters = 0
\* the entity collection is left as it was.
C6_MonstersAtMostCount ==
    /\ Len(entities) - ents_before <= i
    /\ i <= number_of_monsters
    /\ number_of_monsters <= max_monsters_per_room
    /\ max_monsters_per_room = 0 => Len(entities) = 1

\* A call whose trials are over and that added fewer monsters than it drew.
C6_Witness ==
    /\ pc = "place"
    /\ number_of_monsters >= 1
    /\ i = number_of_monsters
    /\ Len(entities) - ents_before < number_of_monsters

\* The cells line 117 carves for the room, and those lines 52-53 draw from.
CarvedCells(room) ==
    SliceIndices(inner(room).xs, map_width)
        \X SliceIndices(inner(room).ys, map_height)

SpawnCells(room) == spawn_xs(room) \X spawn_ys(room)

\* C7 as stated: the cells a monster position is drawn from are fewer than
\* the carved cells of the room: some carved cell can never get a monster.
C7_Original ==
    (pc = "place" /\ CarvedCells(new_room) # {}) =>
        /\ SpawnCells(new_room) \subseteq CarvedCells(new_room)
        /\ CarvedCells(new_room) \ SpawnCells(new_room) # {}

\* C7 amended: the cells a monster position is drawn from are exactly the
\* carved cells of the room, and every monster the call has spawned stands
\* on one of them.
C7_SpawnCellsAreCarvedCells ==
    pc = "place" =>
        /\ SpawnCells(new_room) = Interior(new_room)
        /\ CarvedCells(new_room) = Interior(new_room)
        /\ \A k \in ents_before + 1 .. Len(entities) :
               /\ <<entities[k].x, entities[k].y>> \in Interior(new_room)
               /\ tiles[<<entities[k].x, entities[k].y>>] = "floor"

\* A monster stands on the last carved column and row of a room.
C7_Witness ==
    /\ pc = "place"
    /\ new_room.x2 - new_room.x1 >= 3
    /\ \E k \in ents_before + 1 .. Len(entities) :
           /\ entities[k].x = new_room.x2 - 1
           /\ entities[k].y = new_room.y2 - 1

\* The rooms generate_dungeon can draw with the current parameters.
CandidateRooms ==
    {room \in {RectangularRoom(x, y, w, h) :
                  x \in 0 .. map_width - 1, y \in 0 .. map_height - 1,
                  w \in room_min_size .. room_max_size,
                  h \in room_min_size .. room_max_size} :
        room.x2 <= map_width - 1 /\ room.y2 <= map_height - 1}

Overlap(lo1, hi1, lo2, hi2) == lo1 <= hi2 /\ lo2 <= hi1

\* The rooms share a stretch of border: one ends where the other begins.
SharesBorder(a, b) ==
    \/ (a.x2 = b.x1 \/ b.x2 = a.x1) /\ Overlap(a.y1, a.y2, b.y1, b.y2)
    \/ (a.y2 = b.y1 \/ b.y2 = a.y1) /\ Overlap(a.x1, a.x2, b.x1, b.x2)

Max(m, n) == IF m >= n THEN m ELSE n

ChebyshevDistance(c, d) == Max(Abs(c[1] - d[1]), Abs(c[2] - d[2]))

\* C8 as stated: the overlap test lets two rooms that share a border both
\* be accepted: where the map has room for a candidate on the border of the
\* accepted room, such a candidate passes the test.
C8_Original ==
    (/\ pc = "done"
     /\ room_min_size >= 2
     /\ Len(rooms) = 1
     /\ \E b \in CandidateRooms : SharesBorder(rooms[1], b)) =>
        \E b \in CandidateRooms :
            SharesBorder(rooms[1], b) /\ ~intersects_any(b, rooms)

\* C8 amended: the overlap test enforces a gap: two accepted rooms never
\* share a border, and any inner cell of one is at least three cells (two
\* wall cells between) from any inner cell of the other.
C8_RoomsKeepAGap ==
    \A a, b \in 1 .. Len(rooms) :
        a # b =>
            /\ ~SharesBorder(rooms[a], rooms[b])
            /\ \A c \in Interior(rooms[a]), d \in Interior(rooms[b]) :
                   ChebyshevDistance(c, d) >= 3

\* Two accepted rooms as close as they get: inner cells three apart.
C8_Witness ==
    /\ Len(rooms) = 2
    /\ \E c \in Interior(rooms[1]), d \in Interior(rooms[2]) :
           ChebyshevDistance(c, d) = 3

Neighbours(c) ==
    {<<c[1] + 1, c[2]>>, <<c[1] - 1, c[2]>>, <<c[1], c[2] + 1>>,
     <<c[1], c[2] - 1>>}

RECURSIVE ReachableFrom(_, _)
\* The cells of `floor` reachable from the set `seen` by orthogonal steps.
ReachableFrom(seen, floor) ==
    LET more == {c \in floor \ seen : Neighbours(c) \cap seen # {}}
    IN  IF more = {} THEN seen ELSE ReachableFrom(seen \cup more, floor)

AllFloorReachable ==
    /\ PlayerCell \in FloorCells
    /\ ReachableFrom({PlayerCell}, FloorCells) = FloorCells

\* C10: under the input contract, a returned map with a room has the
\* player on a floor tile from which every floor tile is reachable by
\* orthogonal steps.
C10_FloorReachableFromPlayer ==
    (InputContract /\ pc = "done" /\ Len(rooms) >= 1) => AllFloorReachable

\* What the code does keep of C10: the same, for room_min_size at least 2,
\* where every room has an inner cell.
FloorReachableWhenRoomsHaveInner ==
    (room_min_size >= 2 /\ pc = "done" /\ Len(rooms) >= 1) => AllFloorReachable

====
